---------------------------- MODULE Spec2Model ----------------------------
(***************************************************************************)
(* Model of the graph merge engine of bio-nexus:                           *)
(*   src/src/knowledge_graph_updater.py  (KnowledgeGraphUpdater)           *)
(*   src/src/models/cerebras_inference.py (CerebrasInference, EntityInfo)  *)
(*   src/main.py                          (the batch loop)                 *)
(*                                                                         *)
(* Representation                                                          *)
(*   - Optional values: None is <<>>, a present value x is <<x>>.          *)
(*   - Entity names are sequences of one-character strings, so that        *)
(*     str.lower() and difflib's SequenceMatcher work on characters.       *)
(*   - Node ids and edge keys are the strings the code builds.             *)
(*   - graph["nodes"] is an insertion-ordered dict: a sequence of          *)
(*     [id, properties] entries.  graph["edges"] and name_to_id_map are    *)
(*     dicts whose order is never observed: functions.                     *)
(*   - A dict of strings (external_ids) is a function.                     *)
(*   - extraction_confidence is a fixed-point number in tenths; the mean   *)
(*     of confidences is the exact fraction [num, den] in lowest terms.    *)
(*   - Timestamps (creation_date, last_updated, last_verified) and the     *)
(*     opaque evidence fields (title, authors, journal, experimental       *)
(*     context, extracted text) are written and never read by the merge    *)
(*     engine; they are left out of the state.                             *)
(***************************************************************************)
EXTENDS Integers, Sequences, FiniteSets, TLC

VARIABLES
    nodes,            \* self.graph["nodes"]
    edges,            \* self.graph["edges"]
    name_to_id_map,   \* self.name_to_id_map
    pc,               \* position inside process_abstract, "idle" outside it
    abstract_info,    \* the abstract being (or last) processed
    relations,        \* the relations the extraction returned for it
    idx,              \* index of the relation the loop at line 284 is at
    source_node_id,   \* local source_id of the loop body
    target_node_id,   \* local target_id of the loop body
    updates,          \* the list of change records built at lines 283-326
    call,             \* the last call made on the updater: [op, args]
    ret,              \* how that call ended: [exc, val]
    processed,        \* number of abstracts handed to process_abstract so far
    rerun,            \* TRUE from the moment the last abstract is processed again
    snap,             \* node ids, edge keys, evidence counts when the re-run began
    graph_file,       \* what the file at graph_path holds
    graph_shape,      \* the shape of self.graph: "dict", or what json.load gave
    main_pc,          \* position of main.py: "start", "loop", "in_try", "done", "crashed"
    attempted,        \* the pmids the batch loop has started on, in order
    extraction,       \* local extraction of CerebrasInference.process_abstract
    attempts,         \* its local attempts
    entities_valid,   \* its local entities_valid
    relations_valid,  \* its local relations_valid
    fix_calls,        \* number of _fix_extraction calls made for this abstract
    entities,         \* local entities of process_abstract (line 259)
    ent_idx           \* index of the entity the loop at line 263 is at

\* main.py's position and the file system
batch_vars == <<graph_file, graph_shape, main_pc, attempted>>

\* the locals of the extraction and of the normalization loop
extract_vars == <<extraction, attempts, entities_valid, relations_valid,
                  fix_calls, entities, ent_idx>>

vars == <<nodes, edges, name_to_id_map, pc, abstract_info, relations, idx,
          source_node_id, target_node_id, updates, call, ret, processed, rerun,
          snap, batch_vars, extract_vars>>

-----------------------------------------------------------------------------
(* Optional values and Python truthiness *)

None == <<>>

Some(x) == <<x>>

\* bool(s) of an Optional[str]: None and "" are falsy
TruthyStr(s) == s # None /\ Len(s[1]) > 0

\* bool(d) of an Optional[Dict]: None and {} are falsy
TruthyDict(d) == d # None /\ DOMAIN d[1] # {}

\* bool(y) of an Optional[int]: None and 0 are falsy
TruthyInt(y) == y # None /\ y[1] # 0

-----------------------------------------------------------------------------
(* str.lower() on the characters the model's names use *)

LowerChar(c) ==
    CASE c = "A" -> "a"
      [] c = "B" -> "b"
      [] c = "C" -> "c"
      [] c = "D" -> "d"
      [] OTHER -> c

lower(s) == [i \in 1..Len(s) |-> LowerChar(s[i])]

-----------------------------------------------------------------------------
(* difflib.SequenceMatcher(None, a, b).ratio(), no junk, strings shorter   *)
(* than the autojunk limit of 200.                                         *)

RECURSIVE CommonPrefix(_, _, _, _, _, _)
\* length of the longest common prefix of a[i..ahi] and b[j..bhi]
CommonPrefix(a, b, i, j, ahi, bhi) ==
    IF i > ahi \/ j > bhi THEN 0
    ELSE IF a[i] # b[j] THEN 0
    ELSE 1 + CommonPrefix(a, b, i + 1, j + 1, ahi, bhi)

\* find_longest_match: the longest block a[i..i+k-1] = b[j..j+k-1] inside
\* a[alo..ahi], b[blo..bhi]; of all longest blocks the one that starts
\* earliest in a, and of those the one that starts earliest in b.
find_longest_match(a, b, alo, ahi, blo, bhi) ==
    LET starts == (alo..ahi) \X (blo..bhi)
        size(p) == CommonPrefix(a, b, p[1], p[2], ahi, bhi)
        before(p, q) == p[1] < q[1] \/ (p[1] = q[1] /\ p[2] <= q[2])
    IN  IF starts = {} THEN <<alo, blo, 0>>
        ELSE LET p == CHOOSE p \in starts :
                        \A q \in starts :
                            \/ size(q) < size(p)
                            \/ size(q) = size(p) /\ before(p, q)
             IN  <<p[1], p[2], size(p)>>

RECURSIVE matching_characters(_, _, _, _, _, _)
\* get_matching_blocks: the longest match, then the same to its left and
\* to its right; the sum of the block sizes
matching_characters(a, b, alo, ahi, blo, bhi) ==
    LET m == find_longest_match(a, b, alo, ahi, blo, bhi)
    IN  IF m[3] = 0 THEN 0
        ELSE m[3]
             + matching_characters(a, b, alo, m[1] - 1, blo, m[2] - 1)
             + matching_characters(a, b, m[1] + m[3], ahi, m[2] + m[3], bhi)

\* ratio() = 2.0 * matches / (len(a) + len(b)), and 1.0 for two empty strings
ratio(a, b) ==
    IF Len(a) + Len(b) = 0 THEN [num |-> 1, den |-> 1]
    ELSE [num |-> 2 * matching_characters(a, b, 1, Len(a), 1, Len(b)),
          den |-> Len(a) + Len(b)]

\* threshold: float = 0.5, as the fraction ThresholdNum / ThresholdDen
ThresholdNum == 1

ThresholdDen == 2

\* similarity > threshold
at_least_threshold_strict(similarity) ==
    similarity.num * ThresholdDen > ThresholdNum * similarity.den

\* similarity >= threshold
at_least_threshold(similarity) ==
    similarity.num * ThresholdDen >= ThresholdNum * similarity.den

\* lines 124-125
similar(a, b) == at_least_threshold(ratio(a, b))

-----------------------------------------------------------------------------
(* Results of a call: the graph it leaves, the exception it raised (NoExc  *)
(* when it returned) and the value it returned.                            *)

NoExc == "none"

Return(w, v) == [w |-> w, exc |-> NoExc, val |-> v]

Raise(w, e) == [w |-> w, exc |-> e, val |-> None]

\* the updater's mutable state as one value
World(ns, es, m) == [nodes |-> ns, edges |-> es, name_to_id_map |-> m]

-----------------------------------------------------------------------------
(* graph["nodes"]: an insertion-ordered dict *)

NodeIds(ns) == {ns[i].id : i \in DOMAIN ns}

HasNode(ns, id) == id \in NodeIds(ns)

\* graph["nodes"][id]["properties"]
NodeProps(ns, id) == ns[CHOOSE i \in DOMAIN ns : ns[i].id = id].properties

\* graph["nodes"][id] = {..., "properties": props}
SetNode(ns, id, props) ==
    IF HasNode(ns, id)
    THEN [i \in DOMAIN ns |->
            IF ns[i].id = id THEN [id |-> id, properties |-> props] ELSE ns[i]]
    ELSE Append(ns, [id |-> id, properties |-> props])

\* dict[key] = value on a dict held as a function
SetKey(d, k, v) == [x \in DOMAIN d \cup {k} |-> IF x = k THEN v ELSE d[x]]

\* existing.update(incoming): incoming wins key by key
DictUpdate(existing, incoming) ==
    [k \in DOMAIN existing \cup DOMAIN incoming |->
        IF k \in DOMAIN incoming THEN incoming[k] ELSE existing[k]]

-----------------------------------------------------------------------------
(* CerebrasInference.disambiguate_entity *)

\* lines 313-322: the user message.  Every candidate is a node id (a str),
\* and candidate['entity_id'] on a str raises TypeError; with no candidate
\* the list is empty and str.format meets the braces of {"match": ...} in
\* the prompt and raises KeyError.
\* a prompt that is built without error
format_prompt_built(new_entity, candidate_entities) == NoExc

format_prompt(new_entity, candidate_entities) ==
    IF candidate_entities # <<>> THEN "TypeError" ELSE "KeyError"

\* lines 333-341: the "match" of the collaborator's JSON answer, None for
\* "No Match", for an empty match and for an answer that is not JSON
parse_match(response) ==
    IF response = "not json" \/ response = "No Match" \/ response = ""
    THEN None
    ELSE Some(response)

disambiguate_entity(w, new_entity, candidate_entities, response) ==
    IF format_prompt(new_entity, candidate_entities) # NoExc
    THEN Raise(w, format_prompt(new_entity, candidate_entities))
    ELSE Return(w, parse_match(response))

-----------------------------------------------------------------------------
(* KnowledgeGraphUpdater.find_matching_entity *)

\* lines 121-122: primary name and alternative names, lower-cased
known_names(props) ==
    <<lower(props.primary_name)>>
        \o [i \in DOMAIN props.alternative_names |->
                lower(props.alternative_names[i])]

\* no fuzzy matching at all
candidate_entities_untried(w, entity) == <<>>

\* lines 117-127: the ids of the nodes of the entity's type with a known
\* name similar to the entity's, in dict order, each once
candidate_entities(w, entity) ==
    LET name_lower == lower(entity.name)
        hit(n) == /\ n.properties.entity_type = entity.type
                  /\ \E k \in DOMAIN known_names(n.properties) :
                        similar(name_lower, known_names(n.properties)[k])
        picked == SelectSeq(w.nodes, hit)
    IN  [i \in DOMAIN picked |-> picked[i].id]

\* the exact match without the type check of line 110
exact_match_untyped(w, entity) ==
    IF lower(entity.name) \in DOMAIN w.name_to_id_map
    THEN Some(w.name_to_id_map[lower(entity.name)])
    ELSE None

\* lines 107-112: the exact match, refused when the types differ
exact_match(w, entity) ==
    IF lower(entity.name) \in DOMAIN w.name_to_id_map
       /\ NodeProps(w.nodes, w.name_to_id_map[lower(entity.name)]).entity_type
            = entity.type
    THEN Some(w.name_to_id_map[lower(entity.name)])
    ELSE None

\* lines 132-137: the collaborator's verdict is returned as it is
after_disambiguation(w, d) ==
    IF d.exc # NoExc THEN d
    ELSE IF d.val # None THEN d
    ELSE Return(w, None)

\* lines 129-137
after_fuzzy_match(w, entity, cands, response) ==
    IF cands # <<>>
    THEN after_disambiguation(w, disambiguate_entity(w, entity, cands, response))
    ELSE Return(w, None)

\* lines 106-127
after_exact_match(w, entity, exact, response) ==
    IF exact # None THEN Return(w, exact)
    ELSE after_fuzzy_match(w, entity, candidate_entities(w, entity), response)

find_matching_entity(w, entity, response) ==
    IF /\ lower(entity.name) \in DOMAIN w.name_to_id_map
       /\ ~HasNode(w.nodes, w.name_to_id_map[lower(entity.name)])
    THEN Raise(w, "KeyError")                                 \* line 109
    ELSE after_exact_match(w, entity, exact_match(w, entity), response)

-----------------------------------------------------------------------------
(* KnowledgeGraphUpdater.create_node, update_node *)

\* an id that does not follow the number of nodes
new_node_id_fixed(ns) == "node_0"

\* line 146: f"node_{len(self.graph['nodes'])}"
new_node_id(ns) == "node_" \o ToString(Len(ns))

\* lines 147-158: the properties of a new node.  entity_info is the
\* __dict__ of an EntityInfo, so both optional keys are present and .get
\* returns their value, None included, never its default.
new_node_properties(entity_info) ==
    [entity_type       |-> entity_info.type,
     primary_name      |-> entity_info.name,
     alternative_names |-> <<>>,
     external_ids      |-> entity_info.external_ids,
     description       |-> entity_info.description]

\* an allocation that does not look at the verdict of the final check
create_node_unchecked(w, entity_info, found) ==
    IF found.exc # NoExc THEN found
    ELSE Return(World(SetNode(w.nodes, new_node_id(w.nodes),
                              new_node_properties(entity_info)),
                      w.edges,
                      SetKey(w.name_to_id_map, lower(entity_info.name),
                             new_node_id(w.nodes))),
                new_node_id(w.nodes))

\* lines 142-162: after the final check
create_node_checked(w, entity_info, found) ==
    IF found.exc # NoExc THEN found
    ELSE IF found.val # None THEN Return(w, found.val[1])        \* line 144
    ELSE Return(World(SetNode(w.nodes, new_node_id(w.nodes),
                              new_node_properties(entity_info)),
                      w.edges,
                      SetKey(w.name_to_id_map, lower(entity_info.name),
                             new_node_id(w.nodes))),
                new_node_id(w.nodes))

create_node(w, entity_info, response) ==
    create_node_checked(w, entity_info,
                        find_matching_entity(w, entity_info, response))

\* >= where line 170 has >
merge_description_ge(stored, incoming) ==
    IF TruthyStr(incoming)
       /\ (~TruthyStr(stored) \/ Len(incoming[1]) >= Len(stored[1]))
    THEN incoming
    ELSE stored

\* lines 169-171: the description is replaced when the incoming one is
\* non-empty and the stored one is empty or shorter
merge_description(stored, incoming) ==
    IF TruthyStr(incoming)
       /\ (~TruthyStr(stored) \/ Len(incoming[1]) > Len(stored[1]))
    THEN incoming
    ELSE stored

\* lines 180-183
merge_alternative_names(props, name) ==
    IF name # props.primary_name
       /\ \A i \in DOMAIN props.alternative_names :
            props.alternative_names[i] # name
    THEN Append(props.alternative_names, name)
    ELSE props.alternative_names

\* the incoming name taken as the node's primary name
update_names_rename(w, node_id, entity_info, props) ==
    Return(World(SetNode(w.nodes, node_id,
                         [props EXCEPT !.primary_name = entity_info.name]),
                 w.edges,
                 SetKey(w.name_to_id_map, lower(entity_info.name), node_id)),
           None)

\* lines 179-188: alternative names, then the name index
update_names(w, node_id, entity_info, props) ==
    Return(World(SetNode(w.nodes, node_id,
                         [props EXCEPT !.alternative_names =
                            merge_alternative_names(props, entity_info.name)]),
                 w.edges,
                 SetKey(w.name_to_id_map, lower(entity_info.name), node_id)),
           None)

\* lines 173-177: existing.update(incoming); the stored value None has no
\* update and line 176 raises with the description already merged
update_external_ids(w, node_id, entity_info, props) ==
    IF ~TruthyDict(entity_info.external_ids)
    THEN update_names(w, node_id, entity_info, props)
    ELSE IF props.external_ids = None
    THEN Raise(World(SetNode(w.nodes, node_id, props), w.edges,
                     w.name_to_id_map),
               "AttributeError")
    ELSE update_names(w, node_id, entity_info,
                      [props EXCEPT !.external_ids =
                            Some(DictUpdate(props.external_ids[1],
                                            entity_info.external_ids[1]))])

\* lines 168-171
update_description(props, entity_info) ==
    [props EXCEPT !.description =
        merge_description(props.description, entity_info.description)]

\* a merge that makes the node when the id is unknown
update_node_upsert(w, node_id, entity_info) ==
    Return(World(SetNode(w.nodes, node_id, new_node_properties(entity_info)),
                 w.edges,
                 SetKey(w.name_to_id_map, lower(entity_info.name), node_id)),
           None)

update_node(w, node_id, entity_info) ==
    IF ~HasNode(w.nodes, node_id) THEN Raise(w, "KeyError")      \* line 166
    ELSE update_external_ids(w, node_id, entity_info,
                             update_description(NodeProps(w.nodes, node_id),
                                                entity_info))

-----------------------------------------------------------------------------
(* KnowledgeGraphUpdater.create_update_edge and its helpers *)

RECURSIVE Gcd(_, _)
Gcd(a, b) == IF b = 0 THEN a ELSE Gcd(b, a % b)

\* an exact fraction in lowest terms
Frac(n, d) == [num |-> n \div Gcd(n, d), den |-> d \div Gcd(n, d)]

RECURSIVE SumSeq(_)
SumSeq(s) == IF s = <<>> THEN 0 ELSE Head(s) + SumSeq(Tail(s))

\* the mean kept incrementally: the average of the stored mean and the
\* confidence of the item just appended
mean_running(xs) ==
    IF Len(xs) = 1 THEN Frac(xs[1], 1)
    ELSE Frac(SumSeq(SubSeq(xs, 1, Len(xs) - 1)) + xs[Len(xs)] * (Len(xs) - 1),
              2 * (Len(xs) - 1))

\* float(np.mean(xs)) of a non-empty list
mean(xs) == Frac(SumSeq(xs), Len(xs))

Min(S) == CHOOSE x \in S : \A y \in S : x <= y

Max(S) == CHOOSE x \in S : \A y \in S : x >= y

\* line 193
edge_key_of(source_id, target_id, relationship_type) ==
    source_id \o "_" \o target_id \o "_" \o relationship_type

\* lines 197-211
new_edge(source_id, target_id, relationship_type) ==
    [source_node         |-> source_id,
     target_node         |-> target_id,
     relationship_type   |-> relationship_type,
     evidence            |-> <<>>,
     aggregated_metadata |-> [total_papers           |-> 0,
                              earliest_evidence      |-> None,
                              latest_evidence        |-> None,
                              evidence_strength      |-> Frac(0, 1),
                              contradictory_evidence |-> FALSE]]

\* lines 214-222
new_evidence(relation_info) ==
    [paper_id              |-> relation_info.paper_id,
     citation_metadata     |-> relation_info.citation_metadata,
     extraction_confidence |-> relation_info.confidence]

\* no evidence is ever taken for a duplicate
is_duplicate_evidence_never(edge, evidence) == FALSE

\* a duplicate only when the whole evidence item is the same
is_duplicate_evidence_whole(edge, evidence) ==
    \E i \in DOMAIN edge.evidence : edge.evidence[i] = evidence

\* lines 231-237
is_duplicate_evidence(edge, evidence) ==
    \E i \in DOMAIN edge.evidence :
        edge.evidence[i].paper_id = evidence.paper_id

\* the years with an absent year counted as 0
known_years_zero(evidences) ==
    {IF evidences[i].citation_metadata.year = None THEN 0
     ELSE evidences[i].citation_metadata.year[1] : i \in DOMAIN evidences}

\* line 244: the years of the evidence items whose year is truthy
known_years(evidences) ==
    {evidences[i].citation_metadata.year[1] :
        i \in {j \in DOMAIN evidences :
                    TruthyInt(evidences[j].citation_metadata.year)}}

\* total_papers counted over the evidence items with a known year
update_edge_metadata_years(edge) ==
    [edge EXCEPT !.aggregated_metadata =
        [total_papers           |->
            Cardinality({i \in DOMAIN edge.evidence :
                            TruthyInt(edge.evidence[i].citation_metadata.year)}),
         earliest_evidence      |->
            IF known_years(edge.evidence) # {}
            THEN Some(Min(known_years(edge.evidence))) ELSE None,
         latest_evidence        |->
            IF known_years(edge.evidence) # {}
            THEN Some(Max(known_years(edge.evidence))) ELSE None,
         evidence_strength      |->
            mean([i \in DOMAIN edge.evidence |->
                    edge.evidence[i].extraction_confidence]),
         contradictory_evidence |->
            edge.aggregated_metadata.contradictory_evidence]]

\* lines 239-254
update_edge_metadata(edge) ==
    LET evidences == edge.evidence
        years == known_years(evidences)
    IN  [edge EXCEPT !.aggregated_metadata =
            [total_papers           |-> Len(evidences),
             earliest_evidence      |-> IF years # {} THEN Some(Min(years))
                                        ELSE None,
             latest_evidence        |-> IF years # {} THEN Some(Max(years))
                                        ELSE None,
             evidence_strength      |->
                mean([i \in DOMAIN evidences |->
                        evidences[i].extraction_confidence]),
             contradictory_evidence |->
                edge.aggregated_metadata.contradictory_evidence]]

create_update_edge(w, source_id, target_id, relation_info) ==
    LET edge_key == edge_key_of(source_id, target_id,
                                relation_info.relationship_type)
        es1 == IF edge_key \in DOMAIN w.edges THEN w.edges
               ELSE SetKey(w.edges, edge_key,
                           new_edge(source_id, target_id,
                                    relation_info.relationship_type))
        evidence == new_evidence(relation_info)
        appended == [es1[edge_key] EXCEPT
                        !.evidence = Append(es1[edge_key].evidence, evidence)]
        es2 == IF is_duplicate_evidence(es1[edge_key], evidence) THEN es1
               ELSE SetKey(es1, edge_key, update_edge_metadata(appended))
    IN  Return(World(w.nodes, es2, w.name_to_id_map), edge_key)

-----------------------------------------------------------------------------
(* KnowledgeGraphUpdater.process_abstract, one relation at a time *)

\* lines 288-289: update_node returns nothing; the endpoint is the id found
merged_into(u, node_id) ==
    IF u.exc # NoExc THEN u ELSE Return(u.w, node_id)

\* lines 287-291: merge into the node found, or create a node
resolved(w, entity, found, response2) ==
    IF found.exc # NoExc THEN found
    ELSE IF found.val # None
    THEN merged_into(update_node(w, found.val[1], entity), found.val[1])
    ELSE create_node(w, entity, response2)

\* lines 286-291 and 294-299: resolve one endpoint, then merge into the
\* node found or create a node.  Returns the node id.
resolve_entity(w, entity, response1, response2) ==
    resolved(w, entity, find_matching_entity(w, entity, response1), response2)

\* lines 307-319: the relation_info handed to create_update_edge
relation_info_of(abstract, relation) ==
    [relationship_type |-> relation.relationship_type,
     paper_id          |-> abstract.pmid,
     citation_metadata |-> [year |-> abstract.year],
     confidence        |-> relation.confidence]

\* lines 321-326: the change record, its action read off the edges as
\* they are after create_update_edge returned
change_record(es, edge_id, src, tgt) ==
    [edge_id   |-> edge_id,
     source_id |-> src,
     target_id |-> tgt,
     action    |-> IF edge_id \in DOMAIN es THEN "updated" ELSE "created"]

-----------------------------------------------------------------------------
(* Inputs *)

\* at most this many relations in one extraction
MaxRels == 2

\* process_abstract is called for the first MaxAbstracts records of data
MaxAbstracts == 2

\* "Ab" and "ab" fold to the same name; "ab" and "ba" have ratio 0.5,
\* "ab" and "cd" have ratio 0
NameAb == <<"A", "b">>

Nameab == <<"a", "b">>

Nameba == <<"b", "a">>

Namecd == <<"c", "d">>

EntityTypes == {"GENE", "DISEASE"}

\* what the disambiguation collaborator may answer: no match, the id of a
\* node, an id no node has
Responses == {"No Match", "node_0", "node_9"}

\* data.json, the list the batch loop of main.py walks through
\* (parse_medline_record: year is an int or None)
data ==
    <<[pmid |-> "100", year |-> Some(2020)],
      [pmid |-> "200", year |-> None],
      [pmid |-> "300", year |-> Some(2018)]>>

\* EntityInfo values an extraction may deliver
Entity(n, t, d, x) ==
    [name |-> n, type |-> t, description |-> d, external_ids |-> x]

\* two spellings of one GENE name, a GENE name at ratio 0.5 from it and
\* an unrelated GENE name
GeneEntities ==
    {Entity(NameAb, "GENE", None, None),
     Entity(Nameab, "GENE", None, None),
     Entity(Nameba, "GENE", None, None),
     Entity(Namecd, "GENE", None, None)}

\* a DISEASE that bears the first GENE's name
DiseaseEntities == {Entity(NameAb, "DISEASE", None, None)}

\* relations between two genes and from a gene to a disease
PipelineRelations ==
    [source_entity     : GeneEntities,
     target_entity     : GeneEntities \cup DiseaseEntities,
     relationship_type : {"ASSOCIATE"},
     confidence        : {9}]

RelationLists(R) == UNION {[1..n -> R] : n \in 0..MaxRels}

-----------------------------------------------------------------------------
(* The file at graph_path: load_graph, save_graph, build_name_map *)

\* kind: "missing", "empty" (size 0), "garbage" (not JSON) or "json".
\* A JSON document has a shape: "dict" ({"nodes": {...}, "edges": {...}}),
\* "no_keys" ({}), "list" ([]) or "nodes_list" ({"nodes": [], "edges": {}}).
FileOf(kind, shape, ns, es) ==
    [kind |-> kind, shape |-> shape, nodes |-> ns, edges |-> es]

MissingFile == FileOf("missing", "", <<>>, <<>>)

EmptyFile == FileOf("empty", "", <<>>, <<>>)

GarbageFile == FileOf("garbage", "", <<>>, <<>>)

\* line 79: json.dump(self.graph, f)
GraphFile(shape, ns, es) == FileOf("json", shape, ns, es)

\* lines 75-82: the files save_graph may leave behind.  The write
\* succeeds, or open raises and the file stays as it was, or json.dump
\* raises after open truncated the file; lines 81-82 swallow the error.
save_graph(f, shape, ns, es) ==
    {GraphFile(shape, ns, es), f, GarbageFile}

\* self.graph as a value: its shape and, for a dict, its nodes and edges
Graph(shape, ns, es) == [shape |-> shape, nodes |-> ns, edges |-> es]

\* lines 38-42: json.load and the two setdefault calls.  A list has no
\* setdefault (AttributeError, line 52) but is already bound to self.graph.
loaded_graph(f) ==
    IF f.kind # "json" THEN Graph("dict", <<>>, <<>>)           \* line 17
    ELSE IF f.shape = "dict" THEN Graph("dict", f.nodes, f.edges)
    ELSE IF f.shape = "no_keys" THEN Graph("dict", <<>>, <<>>)
    ELSE Graph(f.shape, <<>>, <<>>)

\* lines 44-54: save_graph is called when the file is missing or empty,
\* when json.load raises and when setdefault raises
load_saves(f) == f.kind # "json" \/ f.shape = "list"

\* lines 97-99 for one node: the primary name, then the alternative names
RECURSIVE register_names(_, _, _)
register_names(m, names, id) ==
    IF names = <<>> THEN m
    ELSE register_names(SetKey(m, names[1], id), Tail(names), id)

\* an index of the primary names alone
RECURSIVE build_name_map_primary(_)
build_name_map_primary(ns) ==
    IF ns = <<>> THEN <<>>
    ELSE SetKey(build_name_map_primary(SubSeq(ns, 1, Len(ns) - 1)),
                lower(ns[Len(ns)].properties.primary_name),
                ns[Len(ns)].id)

\* lines 93-100: later nodes overwrite the names of earlier ones
RECURSIVE build_name_map(_)
build_name_map(ns) ==
    IF ns = <<>> THEN <<>>
    ELSE register_names(build_name_map(SubSeq(ns, 1, Len(ns) - 1)),
                        known_names(ns[Len(ns)].properties),
                        ns[Len(ns)].id)

-----------------------------------------------------------------------------
(* State *)

\* the local extraction before line 239 has bound it
Unbound ==
    [kind |-> "unbound", entities_valid |-> FALSE, relations_valid |-> FALSE,
     entities |-> <<>>, relations |-> <<>>]

\* no extraction is under way
NoExtraction ==
    /\ extraction = Unbound
    /\ attempts = 0
    /\ entities_valid = FALSE
    /\ relations_valid = FALSE
    /\ fix_calls = 0
    /\ entities = <<>>
    /\ ent_idx = 0

World0 == World(nodes, edges, name_to_id_map)

Init ==
    /\ nodes = <<>>
    /\ edges = <<>>
    /\ name_to_id_map = <<>>
    /\ pc = "idle"
    /\ abstract_info = None
    /\ relations = <<>>
    /\ idx = 0
    /\ source_node_id = None
    /\ target_node_id = None
    /\ updates = <<>>
    /\ call = [op |-> "__init__", args |-> <<>>]
    /\ ret = [exc |-> NoExc, val |-> None]
    /\ processed = 0
    /\ rerun = FALSE
    /\ snap = None
    /\ graph_file = GraphFile("dict", <<>>, <<>>)
    /\ graph_shape = "dict"
    /\ main_pc = "loop"
    /\ attempted = <<>>
    /\ NoExtraction

\* the graph and the name index become those of w
SetWorld(w) ==
    /\ nodes' = w.nodes
    /\ edges' = w.edges
    /\ name_to_id_map' = w.name_to_id_map

Snapshot ==
    [node_ids  |-> NodeIds(nodes),
     edge_keys |-> DOMAIN edges,
     counts    |-> [k \in DOMAIN edges |-> Len(edges[k].evidence)]]

-----------------------------------------------------------------------------
(* process_abstract *)

\* lines 257-283: the extraction returned rels; the loop starts, or, with
\* no relation, process_abstract returns the empty list of updates
Enter(a, rels) ==
    /\ abstract_info' = Some(a)
    /\ relations' = rels
    /\ updates' = <<>>
    /\ source_node_id' = None
    /\ target_node_id' = None
    /\ call' = [op |-> "process_abstract", args |-> <<a>>]
    /\ IF rels = <<>>
       THEN pc' = "idle" /\ idx' = 0 /\ ret' = [exc |-> NoExc, val |-> <<>>]
       ELSE pc' = "source" /\ idx' = 1 /\ ret' = [exc |-> NoExc, val |-> None]
    /\ UNCHANGED <<nodes, edges, name_to_id_map>>

\* process_abstract is called with the next abstract of data.json
BeginAbstract(R) ==
    /\ pc = "idle"
    /\ processed < MaxAbstracts
    /\ processed < Len(data)
    /\ \E rels \in RelationLists(R) : Enter(data[processed + 1], rels)
    /\ processed' = processed + 1
    /\ rerun' = FALSE
    /\ snap' = None
    /\ UNCHANGED <<batch_vars, extract_vars>>

\* line 259 raises (the extraction failed); lines 330-336 re-raise
ExtractionFails ==
    /\ pc = "idle"
    /\ processed < MaxAbstracts
    /\ processed < Len(data)
    /\ abstract_info' = Some(data[processed + 1])
    /\ call' = [op |-> "process_abstract", args |-> <<data[processed + 1]>>]
    /\ relations' = <<>>
    /\ updates' = <<>>
    /\ idx' = 0
    /\ ret' = [exc |-> "ValueError", val |-> None]
    /\ processed' = processed + 1
    /\ rerun' = FALSE
    /\ snap' = None
    /\ UNCHANGED <<nodes, edges, name_to_id_map, pc, source_node_id,
                   target_node_id, batch_vars, extract_vars>>

\* process_abstract is called again with the abstract it has just
\* processed without error, and the extraction returns the same relations
Reprocess ==
    /\ pc = "idle"
    /\ call.op = "process_abstract"
    /\ ret.exc = NoExc
    /\ ~rerun
    /\ Enter(abstract_info[1], relations)
    /\ rerun' = TRUE
    /\ snap' = Some(Snapshot)
    /\ UNCHANGED <<processed, batch_vars, extract_vars>>

\* an abort that empties the document before the exception leaves
Abort_rollback(w, e) ==
    /\ SetWorld(World(<<>>, <<>>, <<>>))
    /\ pc' = "idle"
    /\ ret' = [exc |-> e, val |-> None]
    /\ UNCHANGED <<abstract_info, relations, idx, source_node_id,
                   target_node_id, updates, call, processed, rerun, snap,
                   batch_vars, extract_vars>>

\* lines 330-336: the exception leaves process_abstract
Abort(w, e) ==
    /\ SetWorld(w)
    /\ pc' = "idle"
    /\ ret' = [exc |-> e, val |-> None]
    /\ UNCHANGED <<abstract_info, relations, idx, source_node_id,
                   target_node_id, updates, call, processed, rerun, snap,
                   batch_vars, extract_vars>>

\* lines 288-291: the endpoint is resolved, or the exception aborts
SourceResolved(res) ==
    IF res.exc # NoExc THEN Abort(res.w, res.exc)
    ELSE /\ SetWorld(res.w)
         /\ source_node_id' = Some(res.val)
         /\ pc' = "target"
         /\ UNCHANGED <<abstract_info, relations, idx, target_node_id,
                        updates, call, ret, processed, rerun, snap,
                        batch_vars, extract_vars>>

\* lines 286-291
ResolveSource ==
    /\ pc = "source"
    /\ \E r1, r2 \in Responses :
        SourceResolved(resolve_entity(World0, relations[idx].source_entity,
                                      r1, r2))

\* lines 296-299
TargetResolved(res) ==
    IF res.exc # NoExc THEN Abort(res.w, res.exc)
    ELSE /\ SetWorld(res.w)
         /\ target_node_id' = Some(res.val)
         /\ pc' = "edge"
         /\ UNCHANGED <<abstract_info, relations, idx, source_node_id,
                        updates, call, ret, processed, rerun, snap,
                        batch_vars, extract_vars>>

\* lines 294-299
ResolveTarget ==
    /\ pc = "target"
    /\ \E r1, r2 \in Responses :
        TargetResolved(resolve_entity(World0, relations[idx].target_entity,
                                      r1, r2))

\* lines 321-328: append the change record, go on with the next relation
\* or return the updates
EdgeUpserted(res, ups) ==
    /\ SetWorld(res.w)
    /\ updates' = ups
    /\ idx' = idx + 1
    /\ IF idx = Len(relations)
       THEN pc' = "idle" /\ ret' = [exc |-> NoExc, val |-> ups]
       ELSE pc' = "source" /\ UNCHANGED ret
    /\ UNCHANGED <<abstract_info, relations, source_node_id, target_node_id,
                   call, processed, rerun, snap, batch_vars, extract_vars>>

record_update(res) ==
    EdgeUpserted(res, Append(updates,
                             change_record(res.w.edges, res.val,
                                           source_node_id[1],
                                           target_node_id[1])))

\* lines 307-328
UpsertEdge ==
    /\ pc = "edge"
    /\ record_update(create_update_edge(World0, source_node_id[1],
                        target_node_id[1],
                        relation_info_of(abstract_info[1], relations[idx])))

-----------------------------------------------------------------------------
(* The updater's methods called one at a time *)

\* a method was called with args and ended as res says
Called(op, args, res) ==
    /\ SetWorld(res.w)
    /\ call' = [op |-> op, args |-> args]
    /\ ret' = [exc |-> res.exc, val |-> res.val]
    /\ UNCHANGED <<pc, abstract_info, relations, idx, source_node_id,
                   target_node_id, updates, processed, rerun, snap,
                   batch_vars, extract_vars>>

FindMatchingEntityCall(E) ==
    /\ pc = "idle"
    /\ \E e \in E, r \in Responses :
        Called("find_matching_entity", <<e, r>>,
               find_matching_entity(World0, e, r))

\* no more than max nodes are created
CreateNodeCall(E, max) ==
    /\ pc = "idle"
    /\ Len(nodes) < max
    /\ \E e \in E, r \in Responses :
        Called("create_node", <<e, r>>, create_node(World0, e, r))

UpdateNodeCall(Ids, E) ==
    /\ pc = "idle"
    /\ \E id \in Ids, e \in E :
        Called("update_node", <<id, e>>, update_node(World0, id, e))

CreateUpdateEdgeCall(Sources, Targets, Infos) ==
    /\ pc = "idle"
    /\ \E s \in Sources, t \in Targets, info \in Infos :
        Called("create_update_edge", <<s, t, info>>,
               create_update_edge(World0, s, t, info))

\* bounds on the number of nodes the method-level specifications create
MaxResolveNodes == 2

MaxMergeNodes == 1

\* names and types only
ResolveEntities ==
    {Entity(n, t, None, None) : n \in {NameAb, Nameab, Nameba},
                                t \in EntityTypes}

\* one name and type, with every kind of description: absent, empty, two
\* of length 1, one of length 2
Descriptions == {None, Some(""), Some("d"), Some("e"), Some("dd")}

MergeEntities ==
    {Entity(NameAb, "GENE", d, None) : d \in Descriptions}
        \cup {Entity(Nameab, "GENE", None, None)}

\* ids a caller may pass: two that nodes get, one that no node has
IdInputs == {"node_0", "node_1", "node_9"}

\* the relation_info of every record of data, with two confidences
EdgeInfos ==
    {relation_info_of(data[i],
                      [relationship_type |-> "ASSOCIATE", confidence |-> c]) :
        i \in DOMAIN data, c \in {5, 9}}

\* endpoints: a loop on node_0 and an edge from node_0 to node_1
EdgeSources == {"node_0"}

EdgeTargets == {"node_0", "node_1"}

-----------------------------------------------------------------------------
(* main.py: the constructor and the batch loop *)

\* another spelling, at ratio 0 from "ab" and "ba"
NameDc == <<"D", "c">>

\* a graph an earlier run saved: one GENE with an alternative name
StoredNodes ==
    <<[id |-> "node_0",
       properties |-> [entity_type       |-> "GENE",
                       primary_name      |-> Namecd,
                       alternative_names |-> <<NameDc>>,
                       external_ids      |-> None,
                       description       |-> None]]>>

\* what the file at graph_path may hold when the program starts
InitialFiles ==
    {MissingFile, EmptyFile, GarbageFile,
     GraphFile("list", <<>>, <<>>),
     GraphFile("no_keys", <<>>, <<>>),
     GraphFile("nodes_list", <<>>, <<>>),
     GraphFile("dict", <<>>, <<>>),
     GraphFile("dict", StoredNodes, <<>>)}

\* relations the batch meets: a gene and a disease of one name, two
\* spellings of one gene, and two genes whose names have ratio 0.5
MainRelations ==
    {[source_entity     |-> Entity(Nameab, "GENE", None, None),
      target_entity     |-> Entity(NameAb, "DISEASE", None, None),
      relationship_type |-> "ASSOCIATE",
      confidence        |-> 9],
     [source_entity     |-> Entity(NameAb, "GENE", None, None),
      target_entity     |-> Entity(Nameab, "GENE", None, None),
      relationship_type |-> "ASSOCIATE",
      confidence        |-> 9],
     [source_entity     |-> Entity(Nameab, "GENE", None, None),
      target_entity     |-> Entity(Nameba, "GENE", None, None),
      relationship_type |-> "ASSOCIATE",
      confidence        |-> 9]}

\* the state when main.py is about to construct the updater
InitMain ==
    /\ nodes = <<>>
    /\ edges = <<>>
    /\ name_to_id_map = <<>>
    /\ pc = "idle"
    /\ abstract_info = None
    /\ relations = <<>>
    /\ idx = 0
    /\ source_node_id = None
    /\ target_node_id = None
    /\ updates = <<>>
    /\ call = [op |-> "main", args |-> <<>>]
    /\ ret = [exc |-> NoExc, val |-> None]
    /\ processed = 0
    /\ rerun = FALSE
    /\ snap = None
    /\ graph_file \in InitialFiles
    /\ graph_shape = "dict"
    /\ main_pc = "start"
    /\ attempted = <<>>
    /\ NoExtraction

\* load_graph left g in self.graph and, where it saves, one of files
Loaded(g, files) ==
    /\ graph_shape' = g.shape
    /\ nodes' = g.nodes
    /\ edges' = g.edges
    /\ graph_file' \in files
    /\ main_pc' = "loaded"
    /\ call' = [op |-> "load_graph", args |-> <<graph_file>>]
    /\ ret' = [exc |-> NoExc, val |-> None]
    /\ UNCHANGED <<name_to_id_map, pc, abstract_info, relations, idx,
                   source_node_id, target_node_id, updates, processed, rerun,
                   snap, attempted, extract_vars>>

\* knowledge_graph_updater.py lines 17-25 and 35-54
LoadGraph ==
    /\ main_pc = "start"
    /\ IF load_saves(graph_file)
       THEN Loaded(loaded_graph(graph_file),
                   save_graph(graph_file, loaded_graph(graph_file).shape,
                              <<>>, <<>>))
       ELSE Loaded(loaded_graph(graph_file), {graph_file})

\* knowledge_graph_updater.py line 29: build_name_map indexes
\* self.graph["nodes"] and calls .items() on it; a self.graph that is a
\* list raises TypeError, a "nodes" that is a list raises AttributeError,
\* and the exception leaves the constructor and main.py (line 70)
BuildNameMap ==
    /\ main_pc = "loaded"
    /\ call' = [op |-> "build_name_map", args |-> <<>>]
    /\ IF graph_shape = "dict"
       THEN /\ name_to_id_map' = build_name_map(nodes)
            /\ main_pc' = "loop"
            /\ ret' = [exc |-> NoExc, val |-> None]
       ELSE /\ main_pc' = "crashed"
            /\ ret' = [exc |-> IF graph_shape = "list" THEN "TypeError"
                               ELSE "AttributeError",
                       val |-> None]
            /\ UNCHANGED name_to_id_map
    /\ UNCHANGED <<nodes, edges, pc, abstract_info, relations, idx,
                   source_node_id, target_node_id, updates, processed, rerun,
                   snap, graph_file, graph_shape, attempted, extract_vars>>

\* the for loop of main.py line 82 has another abstract
more_abstracts == processed < MaxAbstracts /\ processed < Len(data)

\* main.py lines 82-89: the loop takes the next abstract and calls
\* process_abstract
Iterate ==
    /\ main_pc = "loop"
    /\ pc = "idle"
    /\ more_abstracts
    /\ main_pc' = "in_try"
    /\ attempted' = Append(attempted, [pmid   |-> data[processed + 1].pmid,
                                       status |-> "running"])
    /\ processed' = processed + 1
    /\ rerun' = FALSE
    /\ snap' = None
    /\ UNCHANGED <<graph_file, graph_shape, extract_vars>>

\* the extraction returned relations
IterateAbstract(R) ==
    /\ Iterate
    /\ \E rels \in RelationLists(R) : Enter(data[processed + 1], rels)

\* the extraction raised and process_abstract re-raised (lines 330-336)
IterateExtractionFails ==
    /\ Iterate
    /\ abstract_info' = Some(data[processed + 1])
    /\ call' = [op |-> "process_abstract", args |-> <<data[processed + 1]>>]
    /\ relations' = <<>>
    /\ updates' = <<>>
    /\ idx' = 0
    /\ ret' = [exc |-> "ValueError", val |-> None]
    /\ UNCHANGED <<nodes, edges, name_to_id_map, pc, source_node_id,
                   target_node_id>>

\* an exception escaped the try statement of line 83 and ended the program
after_try_reraise(exc) == IF exc = NoExc THEN "loop" ELSE "crashed"

\* main.py lines 83-94: whether the try body ended or the except clause
\* logged the error, the for loop goes on
after_try(exc) == "loop"

\* the entry of the abstract the loop is at gets its outcome
logged(status) ==
    [attempted EXCEPT ![Len(attempted)].status = status]

\* main.py lines 90-94: process_abstract returned and save_graph is
\* called, or it raised, the rest of the try body is skipped and the
\* error is logged
AfterProcess ==
    /\ main_pc = "in_try"
    /\ pc = "idle"
    /\ IF ret.exc = NoExc
       THEN /\ graph_file' \in save_graph(graph_file, graph_shape, nodes, edges)
            /\ attempted' = logged("ok")
       ELSE /\ UNCHANGED graph_file
            /\ attempted' = logged("error")
    /\ main_pc' = after_try(ret.exc)
    /\ UNCHANGED <<nodes, edges, name_to_id_map, pc, abstract_info, relations,
                   idx, source_node_id, target_node_id, updates, call, ret,
                   processed, rerun, snap, graph_shape, extract_vars>>

\* main.py lines 96-97: the loop is exhausted
Finish ==
    /\ main_pc = "loop"
    /\ pc = "idle"
    /\ ~more_abstracts
    /\ main_pc' = "done"
    /\ UNCHANGED <<nodes, edges, name_to_id_map, pc, abstract_info, relations,
                   idx, source_node_id, target_node_id, updates, call, ret,
                   processed, rerun, snap, graph_file, graph_shape, attempted,
                   extract_vars>>

NextMain ==
    \/ LoadGraph
    \/ BuildNameMap
    \/ IterateAbstract(MainRelations)
    \/ IterateExtractionFails
    \/ ResolveSource
    \/ ResolveTarget
    \/ UpsertEdge
    \/ AfterProcess
    \/ Finish

SpecMain == InitMain /\ [][NextMain]_vars

\* the program is one sequential process that runs until it ends
SpecMainLive == SpecMain /\ WF_vars(NextMain)

-----------------------------------------------------------------------------
(* CerebrasInference.process_abstract and the normalization loop *)

\* an answer of the language model.  kind: "api_error" (chat_completion
\* raises), "not_json", "list" (JSON, but not an object) or "dict"; for a
\* dict, whether all its entities and all its relations pass the schema,
\* and its content
Answer(kind, ev, rv, ents, rels) ==
    [kind |-> kind, entities_valid |-> ev, relations_valid |-> rv,
     entities |-> ents, relations |-> rels]

\* where the extraction stands: "raise", "fix" (the next thing is the
\* answer to _fix_extraction) or "return", with the locals of lines 239-253
Step(kind, x, n, ev, rv, exc) ==
    [kind |-> kind, extraction |-> x, attempts |-> n, entities_valid |-> ev,
     relations_valid |-> rv, exc |-> exc]

\* the check after the loop left out: the extraction is converted as it is
after_loop_unchecked(x, n, ev, rv) ==
    IF x.kind # "dict" THEN Step("raise", x, n, ev, rv, "AttributeError")
    ELSE Step("return", x, n, ev, rv, NoExc)

\* lines 255-292: with attempts == 3 the flags of the last validation
\* decide; the message is formatted with len(attempts), a TypeError on an
\* int.  Otherwise the extraction is converted (extraction.get, line 268).
after_loop(x, n, ev, rv) ==
    IF n = 3 /\ ~ev THEN Step("raise", x, n, ev, rv, "TypeError")
    ELSE IF n = 3 /\ ~rv THEN Step("raise", x, n, ev, rv, "TypeError")
    ELSE IF x.kind # "dict" THEN Step("raise", x, n, ev, rv, "AttributeError")
    ELSE Step("return", x, n, ev, rv, NoExc)

\* lines 246-253, from the loop test to the call of _fix_extraction
validation_loop(x, n, ev, rv) ==
    IF n < 3
    THEN IF x.kind # "dict"
         THEN Step("raise", x, n, ev, rv, "AttributeError")     \* line 247
         ELSE IF x.entities_valid /\ x.relations_valid
         THEN after_loop(x, n, TRUE, TRUE)                       \* line 251
         ELSE Step("fix", x, n + 1, x.entities_valid, x.relations_valid,
                   NoExc)
    ELSE after_loop(x, n, ev, rv)

\* lines 227-242 and 199-206: the answer is received and parsed, and
\* becomes the extraction
parse_answer(answer, x, n, ev, rv) ==
    IF answer.kind = "api_error" THEN Step("raise", x, n, ev, rv, "APIError")
    ELSE IF answer.kind = "not_json"
    THEN Step("raise", x, n, ev, rv, "ValueError")
    ELSE validation_loop(answer, n, ev, rv)

\* what an extraction may hold
EntityCd == Entity(Namecd, "GENE", None, None)

EntityAbMesh == Entity(NameAb, "DISEASE", None, Some("MESH" :> "D1"))

ExtractedRelations ==
    <<[source_entity     |-> EntityCd,
       target_entity     |-> EntityAbMesh,
       relationship_type |-> "ASSOCIATE",
       confidence        |-> 9]>>

\* the answers of the language model
Answers ==
    {Answer("api_error", FALSE, FALSE, <<>>, <<>>),
     Answer("not_json", FALSE, FALSE, <<>>, <<>>),
     Answer("list", FALSE, FALSE, <<>>, <<>>),
     Answer("dict", TRUE, TRUE, <<EntityCd>>, <<>>)}
    \cup {Answer("dict", ev, rv, <<EntityCd, EntityAbMesh>>,
                  ExtractedRelations) : ev \in BOOLEAN, rv \in BOOLEAN}

\* what PubTatorAPI.find_entity_id does: a list of ids, or it raises
Lookups ==
    {[exc |-> NoExc, val |-> <<"P1">>],
     [exc |-> NoExc, val |-> <<>>],
     [exc |-> "HTTPError", val |-> <<>>]}

\* the extraction stands at step st
Extracted(st) ==
    /\ extraction' = st.extraction
    /\ attempts' = st.attempts
    /\ entities_valid' = st.entities_valid
    /\ relations_valid' = st.relations_valid
    /\ IF st.kind = "fix"
       THEN /\ pc' = "fix"
            /\ ret' = [exc |-> NoExc, val |-> None]
            /\ UNCHANGED <<entities, relations>>
       ELSE IF st.kind = "raise"
       THEN /\ pc' = "idle"                           \* lines 330-336
            /\ ret' = [exc |-> st.exc, val |-> None]
            /\ UNCHANGED <<entities, relations>>
       ELSE /\ entities' = st.extraction.entities     \* lines 262-292
            /\ relations' = st.extraction.relations
            /\ pc' = IF st.extraction.entities = <<>> THEN "relations"
                     ELSE "normalize"
            /\ ret' = [exc |-> NoExc, val |-> None]

\* knowledge_graph_updater.py lines 257-259 and cerebras_inference.py
\* lines 208-253: process_abstract is called with the next abstract and
\* the model's first answer arrives
ExtractCall ==
    /\ pc = "idle"
    /\ more_abstracts
    /\ \E answer \in Answers :
        Extracted(parse_answer(answer, Unbound, 0, FALSE, FALSE))
    /\ abstract_info' = Some(data[processed + 1])
    /\ call' = [op |-> "process_abstract", args |-> <<data[processed + 1]>>]
    /\ updates' = <<>>
    /\ idx' = 0
    /\ ent_idx' = 1
    /\ fix_calls' = 0
    /\ source_node_id' = None
    /\ target_node_id' = None
    /\ processed' = processed + 1
    /\ rerun' = FALSE
    /\ snap' = None
    /\ UNCHANGED <<nodes, edges, name_to_id_map, batch_vars>>

\* cerebras_inference.py lines 253 and 182-206, then the loop again: the
\* answer to the repair prompt arrives
FixExtraction ==
    /\ pc = "fix"
    /\ fix_calls' = fix_calls + 1
    /\ \E answer \in Answers :
        Extracted(parse_answer(answer, extraction, attempts,
                               entities_valid, relations_valid))
    /\ UNCHANGED <<nodes, edges, name_to_id_map, abstract_info, idx,
                   source_node_id, target_node_id, updates, call, processed,
                   rerun, snap, ent_idx, batch_vars>>

\* an abort of process_abstract on a failed lookup
after_lookup_fatal(exc, i, n) ==
    IF exc # NoExc THEN "idle" ELSE IF i < n THEN "normalize" ELSE "relations"

\* lines 263-273: the except clause is inside the for loop, so the loop
\* goes on with the next entity and then with the relations
after_lookup(exc, i, n) == IF i < n THEN "normalize" ELSE "relations"

\* lines 266-269: the first id found becomes the entity's PubTatorID
normalized(ent, lookup) ==
    IF lookup.exc = NoExc /\ lookup.val # <<>>
    THEN [ent EXCEPT !.external_ids =
            Some(SetKey(IF TruthyDict(ent.external_ids)
                        THEN ent.external_ids[1] ELSE <<>>,
                        "PubTatorID", lookup.val[1]))]
    ELSE ent

\* the relations' endpoints and the entities as the same objects: the
\* lookup of an entity shows in the endpoints of its name and type
relations_after_lookup_shared(rels, ent, lookup) ==
    LET same(e) == e.name = ent.name /\ e.type = ent.type
    IN  [i \in DOMAIN rels |->
            [rels[i] EXCEPT
                !.source_entity = IF same(@) THEN normalized(@, lookup) ELSE @,
                !.target_entity = IF same(@) THEN normalized(@, lookup) ELSE @]]

\* cerebras_inference.py lines 261-292: the endpoints of the relations are
\* EntityInfo objects of their own, built apart from the entities list, so
\* line 269 of the updater does not reach them
relations_after_lookup(rels, ent, lookup) == rels

\* lines 263-273: one entity of the normalization loop
NormalizeEntity ==
    /\ pc = "normalize"
    /\ \E lookup \in Lookups :
        /\ entities' = [entities EXCEPT
                            ![ent_idx] = normalized(entities[ent_idx], lookup)]
        /\ relations' = relations_after_lookup(relations, entities[ent_idx],
                                               lookup)
        /\ call' = [op |-> "find_entity_id",
                    args |-> <<entities[ent_idx].name>>]
        /\ ret' = [exc |-> lookup.exc, val |-> lookup.val]
        /\ pc' = after_lookup(lookup.exc, ent_idx, Len(entities))
    /\ ent_idx' = ent_idx + 1
    /\ UNCHANGED <<nodes, edges, name_to_id_map, abstract_info, idx,
                   source_node_id, target_node_id, updates, processed, rerun,
                   snap, batch_vars, extraction, attempts, entities_valid,
                   relations_valid, fix_calls>>

\* lines 283-284 and 328: the loop over the relations starts, or with no
\* relation process_abstract returns the empty list of updates
BeginRelations ==
    /\ pc = "relations"
    /\ call' = [op |-> "process_abstract", args |-> <<abstract_info[1]>>]
    /\ IF relations = <<>>
       THEN pc' = "idle" /\ idx' = 0 /\ ret' = [exc |-> NoExc, val |-> <<>>]
       ELSE pc' = "source" /\ idx' = 1 /\ ret' = [exc |-> NoExc, val |-> None]
    /\ UNCHANGED <<nodes, edges, name_to_id_map, abstract_info, relations,
                   source_node_id, target_node_id, updates, processed, rerun,
                   snap, batch_vars, extract_vars>>

NextExtract ==
    \/ ExtractCall
    \/ FixExtraction
    \/ NormalizeEntity
    \/ BeginRelations
    \/ ResolveSource
    \/ ResolveTarget
    \/ UpsertEdge

SpecExtract == Init /\ [][NextExtract]_vars

Next ==
    \/ BeginAbstract(PipelineRelations)
    \/ ExtractionFails
    \/ Reprocess
    \/ ResolveSource
    \/ ResolveTarget
    \/ UpsertEdge

Spec == Init /\ [][Next]_vars

NextResolve ==
    \/ FindMatchingEntityCall(ResolveEntities)
    \/ CreateNodeCall(ResolveEntities, MaxResolveNodes)
    \/ UpdateNodeCall(IdInputs, ResolveEntities)

SpecResolve == Init /\ [][NextResolve]_vars

NextMerge ==
    \/ CreateNodeCall(MergeEntities, MaxMergeNodes)
    \/ UpdateNodeCall(IdInputs, MergeEntities)

SpecMerge == Init /\ [][NextMerge]_vars

\* the external_ids an entity may carry: none, an empty dict, one or two
\* identifiers, and another value for an identifier
ExternalIds ==
    {None, Some(<<>>), Some("MESH" :> "D1"), Some("MESH" :> "D2"),
     Some("HGNC" :> "7"), Some("MESH" :> "D1" @@ "HGNC" :> "7")}

IdEntities == {Entity(NameAb, "GENE", None, x) : x \in ExternalIds}

NextIds ==
    \/ CreateNodeCall(IdEntities, MaxMergeNodes)
    \/ UpdateNodeCall(IdInputs, IdEntities)

SpecIds == Init /\ [][NextIds]_vars

\* three spellings of GENE names, without and with an identifier
NameEntities ==
    {Entity(n, "GENE", None, x) : n \in {NameAb, Nameab, Nameba},
                                  x \in {None, Some("MESH" :> "D1")}}

NextNames ==
    \/ CreateNodeCall(NameEntities, MaxMergeNodes)
    \/ UpdateNodeCall(IdInputs, NameEntities)

SpecNames == Init /\ [][NextNames]_vars

NextEdge == CreateUpdateEdgeCall(EdgeSources, EdgeTargets, EdgeInfos)

SpecEdge == Init /\ [][NextEdge]_vars

-----------------------------------------------------------------------------
(* Properties *)

\* len of an Optional[str], 0 for None
DescLen(d) == IF d = None THEN 0 ELSE Len(d[1])

\* the key of the edge the last create_update_edge call was about
CalledEdgeKey ==
    edge_key_of(call.args[1], call.args[2], call.args[3].relationship_type)

\* C1: while and after process_abstract runs a second time on the abstract
\* it has just processed without error, with the same extraction result,
\* the set of node ids, the set of edge keys and the number of evidence
\* items of every edge are what they were when the second run began.
C1_Idempotent ==
    rerun =>
        /\ NodeIds(nodes) = snap[1].node_ids
        /\ DOMAIN edges = snap[1].edge_keys
        /\ \A k \in DOMAIN edges :
            Len(edges[k].evidence) = snap[1].counts[k]

\* the second run of the second abstract returned, with two relations and
\* three nodes in the graph
C1_Witness ==
    /\ rerun
    /\ pc = "idle"
    /\ ret.exc = NoExc
    /\ processed = 2
    /\ Len(updates) = 2
    /\ Len(nodes) >= 3
    /\ \E k \in DOMAIN edges : Len(edges[k].evidence) = 2

\* the confidences of the evidence items of an edge, in order
Confidences(edge) ==
    [i \in DOMAIN edge.evidence |-> edge.evidence[i].extraction_confidence]

\* the years of the evidence items of an edge whose year is present
PresentYears(edge) ==
    {edge.evidence[i].citation_metadata.year[1] :
        i \in {j \in DOMAIN edge.evidence :
                    edge.evidence[j].citation_metadata.year # None}}

\* C2: after any sequence of create_update_edge calls, every edge's
\* total_papers is the number of items of its evidence list.
C2_TotalPapers ==
    \A k \in DOMAIN edges :
        edges[k].aggregated_metadata.total_papers = Len(edges[k].evidence)

\* an edge holds three evidence items, one of them without a year, and
\* the last call was turned down as a duplicate
C2_Witness ==
    /\ call.op = "create_update_edge"
    /\ CalledEdgeKey \in DOMAIN edges
    /\ Len(edges[CalledEdgeKey].evidence) = 3
    /\ edges[CalledEdgeKey].aggregated_metadata.total_papers = 3
    /\ edges[CalledEdgeKey].evidence[3].paper_id # call.args[3].paper_id
    /\ \E i \in 1..3 :
        edges[CalledEdgeKey].evidence[i].citation_metadata.year = None

\* C3: no edge ever holds two evidence items with the same paper_id, and a
\* create_update_edge call whose paper_id is already on the edge leaves
\* the edge's evidence list and aggregated metadata as they were.
C3_DuplicateIsNoOp ==
    [][/\ \A k \in DOMAIN edges' :
            \A i, j \in DOMAIN edges'[k].evidence :
                edges'[k].evidence[i].paper_id = edges'[k].evidence[j].paper_id
                    => i = j
       /\ (/\ call'.op = "create_update_edge"
           /\ CalledEdgeKey' \in DOMAIN edges
           /\ \E i \in DOMAIN edges[CalledEdgeKey'].evidence :
                edges[CalledEdgeKey'].evidence[i].paper_id
                    = call'.args[3].paper_id)
          => edges'[CalledEdgeKey'] = edges[CalledEdgeKey']]_vars

\* the last call brought a paper the edge already had as its first of two
\* items, with another confidence than the stored one
C3_Witness ==
    /\ call.op = "create_update_edge"
    /\ CalledEdgeKey \in DOMAIN edges
    /\ Len(edges[CalledEdgeKey].evidence) = 2
    /\ edges[CalledEdgeKey].evidence[1].paper_id = call.args[3].paper_id
    /\ edges[CalledEdgeKey].evidence[1].extraction_confidence
            # call.args[3].confidence

\* C7: on every edge that holds evidence, earliest_evidence and
\* latest_evidence are the minimum and the maximum of the years of the
\* items whose year is present, and both are None exactly when no item
\* has a year.
C7_YearRange ==
    \A k \in DOMAIN edges :
        edges[k].evidence # <<>> =>
            LET ys == PresentYears(edges[k])
                md == edges[k].aggregated_metadata
            IN  /\ (md.earliest_evidence = None) <=> (ys = {})
                /\ (md.latest_evidence = None) <=> (ys = {})
                /\ ys # {} =>
                    /\ md.earliest_evidence[1] \in ys
                    /\ md.latest_evidence[1] \in ys
                    /\ \A y \in ys : md.earliest_evidence[1] <= y
                    /\ \A y \in ys : y <= md.latest_evidence[1]

\* an edge whose evidence has the years 2020, none, 2018 in this order
C7_Witness ==
    \E k \in DOMAIN edges :
        /\ Len(edges[k].evidence) = 3
        /\ edges[k].evidence[1].citation_metadata.year = Some(2020)
        /\ edges[k].evidence[2].citation_metadata.year = None
        /\ edges[k].evidence[3].citation_metadata.year = Some(2018)
        /\ edges[k].aggregated_metadata.earliest_evidence = Some(2018)
        /\ edges[k].aggregated_metadata.latest_evidence = Some(2020)

\* C8: on every edge that holds evidence, evidence_strength is the
\* arithmetic mean of the confidences of all its items:
\* evidence_strength * total_papers = sum of the confidences, whatever the
\* order the items came in.
C8_MeanConfidence ==
    \A k \in DOMAIN edges :
        edges[k].evidence # <<>> =>
            LET md == edges[k].aggregated_metadata
            IN  /\ md.evidence_strength.den > 0
                /\ md.evidence_strength.num * md.total_papers
                    = SumSeq(Confidences(edges[k])) * md.evidence_strength.den

\* an edge with three items of confidences 0.9, 0.5, 0.9 and mean 23/30
C8_Witness ==
    \E k \in DOMAIN edges :
        /\ Confidences(edges[k]) = <<9, 5, 9>>
        /\ edges[k].aggregated_metadata.evidence_strength
                = [num |-> 23, den |-> 3]

\* C4: whatever the disambiguation collaborator answers, when
\* find_matching_entity returns an id, a node with that id is in the
\* document and its entity_type is the type of the queried entity.
\* (It returns no-match or raises otherwise: with a fuzzy candidate,
\* disambiguate_entity raises before the collaborator's answer is read.)
C4_ResolvedTypeMatches ==
    (/\ call.op = "find_matching_entity"
     /\ ret.exc = NoExc
     /\ ret.val # None)
        => /\ HasNode(nodes, ret.val[1])
           /\ NodeProps(nodes, ret.val[1]).entity_type = call.args[1].type

\* find_matching_entity returned the id of a node while a node of another
\* type bears the same case-folded name, and the collaborator's answer was
\* the id of that other node
C4_Witness ==
    /\ call.op = "find_matching_entity"
    /\ ret.exc = NoExc
    /\ ret.val # None
    /\ \E i \in DOMAIN nodes :
        /\ nodes[i].id # ret.val[1]
        /\ nodes[i].id = call.args[2]
        /\ nodes[i].properties.entity_type # call.args[1].type
        /\ lower(nodes[i].properties.primary_name) = lower(call.args[1].name)

\* the spellings under which the pipeline's entities name a node
QueryNames == {NameAb, Nameab, Nameba, Namecd}

\* C5: in every reachable state, for every node n and every entity whose
\* name case-folds to n's primary_name and whose type is n's entity_type,
\* find_matching_entity returns n's id, whatever the collaborator answers.
C5_ExactMatchDeterminism ==
    \A i \in DOMAIN nodes :
        \A name \in QueryNames :
            lower(name) = lower(nodes[i].properties.primary_name) =>
                \A r \in Responses :
                    find_matching_entity(World0,
                        Entity(name, nodes[i].properties.entity_type,
                               None, None), r)
                    = Return(World0, Some(nodes[i].id))

\* C6: the change record process_abstract appends for a relation has the
\* action "created" exactly when the relation's edge key was not in the
\* document before the upsert, and "updated" exactly when it was.
C6_ActionTellsCreated ==
    [][Len(updates') = Len(updates) + 1 =>
        /\ (updates'[Len(updates')].action = "created")
            <=> (updates'[Len(updates')].edge_id \notin DOMAIN edges)
        /\ (updates'[Len(updates')].action = "updated")
            <=> (updates'[Len(updates')].edge_id \in DOMAIN edges)]_vars

\* C9: a node's description changes only when update_node merges into
\* that node an incoming description strictly longer than the stored one,
\* which then replaces it; an absent, empty, shorter or equally long
\* incoming description leaves it as it is, so its length never decreases.
C9_MergeMonotone ==
    [][\A i \in DOMAIN nodes :
        /\ i \in DOMAIN nodes'
        /\ DescLen(nodes'[i].properties.description)
                >= DescLen(nodes[i].properties.description)
        /\ nodes'[i].properties.description # nodes[i].properties.description
            => /\ call'.op = "update_node"
               /\ call'.args[1] = nodes[i].id
               /\ nodes'[i].properties.description = call'.args[2].description
               /\ DescLen(call'.args[2].description)
                    > DescLen(nodes[i].properties.description)
        /\ (/\ call'.op = "update_node"
            /\ call'.args[1] = nodes[i].id
            /\ DescLen(call'.args[2].description)
                    > DescLen(nodes[i].properties.description))
            => nodes'[i].properties.description = call'.args[2].description
      ]_vars

\* update_node has merged the description "e" into a node whose
\* description is "d", of the same length, and the node keeps "d"
C9_Witness ==
    /\ call.op = "update_node"
    /\ ret.exc = NoExc
    /\ call.args[2].description = Some("e")
    /\ \E i \in DOMAIN nodes :
        /\ nodes[i].id = call.args[1]
        /\ nodes[i].properties.description = Some("d")

\* the first abstract, processed from the empty graph, with an extraction
\* of one relation between two entities of different types
C10_Case ==
    /\ processed = 1
    /\ call.op = "process_abstract"
    /\ Len(relations) = 1
    /\ relations[1].source_entity.type # relations[1].target_entity.type

\* C10: from the empty graph, processing one abstract whose extraction is
\* one relation between two entities of different types succeeds and
\* leaves exactly two nodes and one edge between them, with total_papers 1
\* and evidence_strength the relation's confidence; at every step of
\* processing the same abstract again there are still two nodes and that
\* one edge with total_papers 1.
C10_EndToEnd ==
    (C10_Case /\ (pc = "idle" \/ rerun)) =>
        /\ ~rerun => (ret.exc = NoExc /\ Len(updates) = 1)
        /\ Len(nodes) = 2
        /\ Cardinality(DOMAIN edges) = 1
        /\ \A k \in DOMAIN edges :
            /\ edges[k].source_node = nodes[1].id
            /\ edges[k].target_node = nodes[2].id
            /\ Len(edges[k].evidence) = 1
            /\ edges[k].aggregated_metadata.total_papers = 1
            /\ edges[k].aggregated_metadata.evidence_strength
                    = Frac(relations[1].confidence, 1)

\* the second run on such an abstract has returned its change record
C10_Witness ==
    /\ C10_Case
    /\ rerun
    /\ pc = "idle"
    /\ ret.exc = NoExc
    /\ Len(updates) = 1
    /\ Len(nodes) = 2
    /\ Cardinality(DOMAIN edges) = 1

\* the document save_graph writes for the graph as it is in memory
InMemoryDocument == GraphFile(graph_shape, nodes, edges)

\* the try statement of main.py has just been left
LeftTry == main_pc = "in_try" /\ main_pc' # "in_try"

\* C11: whenever process_abstract has returned without error, the file at
\* graph_path holds the full in-memory document before the batch loop goes
\* on to the next abstract.
C11_SavedAfterSuccess ==
    [][(LeftTry /\ ret.exc = NoExc) => graph_file' = InMemoryDocument']_vars

\* C12: when process_abstract raises while the in-memory document holds
\* mutations of this abstract's relations that the file does not hold, the
\* caller writes the document to the file before it goes on to the next
\* abstract or ends the batch.
C12_SavedAfterFailure ==
    [][(/\ LeftTry
        /\ ret.exc # NoExc
        /\ relations # <<>>
        /\ graph_file.kind = "json"
        /\ graph_file # InMemoryDocument)
       => graph_file' = InMemoryDocument']_vars

\* the number of abstracts the batch loop walks through
BatchSize == IF MaxAbstracts < Len(data) THEN MaxAbstracts ELSE Len(data)

\* C13: the batch loop starts on the abstracts of the input list one by
\* one in input order, each once, whether or not earlier ones failed; once
\* the loop runs it reaches its end, and at its end every abstract of the
\* list has been attempted and has got its outcome.
C13_EveryAbstractOnce ==
    /\ [](\A i \in DOMAIN attempted :
            i <= BatchSize /\ attempted[i].pmid = data[i].pmid)
    /\ [](main_pc = "done" =>
            /\ Len(attempted) = BatchSize
            /\ \A i \in DOMAIN attempted :
                attempted[i].status \in {"ok", "error"})
    /\ (main_pc = "loop" ~> main_pc = "done")

\* the batch is finished; its first abstract failed and its second did not
C13_Witness ==
    /\ main_pc = "done"
    /\ Len(attempted) = 2
    /\ attempted[1].status = "error"
    /\ attempted[2].status = "ok"
    /\ nodes # <<>>

\* a file that does not hold a graph document of the expected shape
Malformed(f) == f.kind # "json" \/ f.shape # "dict"

\* C15: when the file at graph_path is missing, empty, not parseable or
\* parseable but not of the expected shape, load_graph returns with the
\* in-memory graph equal to {nodes: {}, edges: {}} and with that empty
\* graph written to the file (or, where writing the file failed, with the
\* file as a failed write of the empty graph leaves it).
C15_MalformedLoadsEmpty ==
    [][(main_pc = "start" /\ main_pc' = "loaded" /\ Malformed(graph_file))
       => /\ ret'.exc = NoExc
          /\ graph_shape' = "dict"
          /\ nodes' = <<>>
          /\ edges' = <<>>
          /\ graph_file' \in save_graph(graph_file, "dict", <<>>, <<>>)]_vars

\* C16: once the constructor has built the name index, (a) for every
\* node, every case-folded known name (primary or alternative) is a key
\* of name_to_id_map, and (b) every key of name_to_id_map maps to a node
\* of the document that has that key among its case-folded known names.
C16_NameIndexConsistent ==
    main_pc \in {"loop", "in_try", "done"} =>
        /\ \A i \in DOMAIN nodes :
            \A k \in DOMAIN known_names(nodes[i].properties) :
                known_names(nodes[i].properties)[k] \in DOMAIN name_to_id_map
        /\ \A name \in DOMAIN name_to_id_map :
            /\ HasNode(nodes, name_to_id_map[name])
            /\ \E k \in DOMAIN known_names(NodeProps(nodes, name_to_id_map[name])) :
                known_names(NodeProps(nodes, name_to_id_map[name]))[k] = name

\* the graph was loaded from a file with a node that has an alternative
\* name, and since then a gene and a disease of one name were created, the
\* later of which took the name's entry in the index
C16_Witness ==
    /\ main_pc = "loop"
    /\ Len(nodes) = 3
    /\ nodes[1].properties.alternative_names # <<>>
    /\ lower(nodes[2].properties.primary_name)
            = lower(nodes[3].properties.primary_name)
    /\ name_to_id_map[lower(nodes[2].properties.primary_name)] = nodes[3].id

\* process_abstract is past the extraction of the abstract it is at
PastExtraction ==
    \/ pc \in {"normalize", "relations", "source", "target", "edge"}
    \/ pc = "idle" /\ call.op = "process_abstract" /\ ret.exc = NoExc

\* C14: for one abstract at most 3 repair calls are made, and a repair
\* call that is awaited is at most the third, so the loop ends; when the
\* extraction has returned, the entities and relations it returned are
\* those of an extraction that passed the entity and the relation
\* validation. Otherwise process_abstract has failed for the abstract.
C14_RepairBounded ==
    /\ fix_calls <= 3
    /\ attempts <= 3
    /\ pc = "fix" => fix_calls < 3
    /\ PastExtraction =>
        /\ extraction.kind = "dict"
        /\ extraction.entities_valid
        /\ extraction.relations_valid
        /\ relations = extraction.relations
        /\ Len(entities) = Len(extraction.entities)
        /\ \A i \in DOMAIN entities :
            /\ entities[i].name = extraction.entities[i].name
            /\ entities[i].type = extraction.entities[i].type

\* the extraction returned after two repair calls
C14_Witness ==
    /\ pc = "normalize"
    /\ fix_calls = 2
    /\ attempts = 2
    /\ ent_idx = 1
    /\ relations # <<>>

\* C19: when the lookup of an entity fails, process_abstract does not
\* fail: the entity stays as the extraction delivered it, the relations
\* stay as they are, and the loop goes on with the next entity or, after
\* the last entity, with the relations.
C19_LookupFailureNotFatal ==
    [][(/\ pc = "normalize"
        /\ call'.op = "find_entity_id"
        /\ ret'.exc # NoExc)
       => /\ entities' = entities
          /\ entities[ent_idx].external_ids
                = extraction.entities[ent_idx].external_ids
          /\ relations' = relations
          /\ relations = extraction.relations
          /\ ent_idx' = ent_idx + 1
          /\ IF ent_idx < Len(entities) THEN pc' = "normalize"
             ELSE pc' = "relations"]_vars

\* the lookup of the first of two entities failed and the loop is at the
\* second
C19_Witness ==
    /\ pc = "normalize"
    /\ call.op = "find_entity_id"
    /\ ret.exc # NoExc
    /\ ent_idx = 2
    /\ Len(entities) = 2
    /\ relations # <<>>

\* C17: from one state to the next every node stays in the document with
\* its id, its entity_type and its primary_name, whatever is called.
C17_TypeAndNameFixed ==
    [][\A i \in DOMAIN nodes :
        /\ i \in DOMAIN nodes'
        /\ nodes'[i].id = nodes[i].id
        /\ nodes'[i].properties.entity_type = nodes[i].properties.entity_type
        /\ nodes'[i].properties.primary_name = nodes[i].properties.primary_name
      ]_vars

\* update_node has merged into a node an entity of another type and of
\* another name, which became an alternative name
C17_Witness ==
    /\ call.op = "update_node"
    /\ ret.exc = NoExc
    /\ HasNode(nodes, call.args[1])
    /\ NodeProps(nodes, call.args[1]).entity_type # call.args[2].type
    /\ lower(NodeProps(nodes, call.args[1]).primary_name)
            # lower(call.args[2].name)
    /\ NodeProps(nodes, call.args[1]).alternative_names # <<>>

\* a stored external_ids as a dict: None counts as no identifier
IdsOf(x) == IF x = None THEN <<>> ELSE x[1]

\* C18: for every node of the document, also one created from an entity
\* without external_ids, and every incoming entity with external_ids,
\* update_node succeeds and the node's external_ids become the stored
\* mapping overridden key by key by the incoming one.
C18_ExternalIdsMerged ==
    [][(/\ call'.op = "update_node"
        /\ HasNode(nodes, call'.args[1])
        /\ TruthyDict(call'.args[2].external_ids))
       => /\ ret'.exc = NoExc
          /\ NodeProps(nodes', call'.args[1]).external_ids
                = Some(DictUpdate(
                        IdsOf(NodeProps(nodes, call'.args[1]).external_ids),
                        call'.args[2].external_ids[1]))]_vars

\* C20: update_node called with an id that is not in the document raises
\* and leaves the nodes, the edges and name_to_id_map as they were.
C20_UnknownIdChangesNothing ==
    [][(call'.op = "update_node" /\ ~HasNode(nodes, call'.args[1]))
       => /\ ret'.exc # NoExc
          /\ nodes' = nodes
          /\ edges' = edges
          /\ name_to_id_map' = name_to_id_map]_vars

\* update_node was called on a document of two nodes with an id neither
\* of them has, and raised
C20_Witness ==
    /\ call.op = "update_node"
    /\ ret.exc = "KeyError"
    /\ Len(nodes) = 2
    /\ ~HasNode(nodes, call.args[1])
    /\ lower(call.args[2].name) \notin DOMAIN name_to_id_map

\* C21: when the exact match finds nothing and at least one fuzzy candidate
\* exists, find_matching_entity does not fail and returns the verdict of
\* the disambiguation collaborator: the id it named, otherwise no match.
C21_CollaboratorVerdict ==
    [][(/\ call'.op = "find_matching_entity"
        /\ exact_match(World0, call'.args[1]) = None
        /\ candidate_entities(World0, call'.args[1]) # <<>>)
       => /\ ret'.exc = NoExc
          /\ ret'.val = parse_match(call'.args[2])]_vars

\* a name of three letters: ratio 0.8 to "ab", 0.4 to "ba"
Nameabc == <<"a", "b", "c">>

\* the entities find_matching_entity is asked about
CandidateQueries ==
    {Entity(n, t, None, None) : n \in {NameAb, Nameba, Nameabc},
                                t \in EntityTypes}

\* the similarity of two names is at least one half
Qualifies(a, b) == 2 * ratio(a, b).num >= ratio(a, b).den

\* the known names of node n that qualify for the name of entity e
QualifyingNames(n, e) ==
    {k \in DOMAIN known_names(n.properties) :
        Qualifies(lower(e.name), known_names(n.properties)[k])}

\* C22: in every reachable state and for every query, the candidate list
\* holds exactly the ids of the nodes of the query's type with a case-folded
\* known name of similarity >= 0.5 to the case-folded query name, each once.
C22_CandidateList ==
    \A e \in CandidateQueries :
        LET c == candidate_entities(World0, e)
        IN  /\ {c[i] : i \in DOMAIN c}
                = {nodes[i].id : i \in {j \in DOMAIN nodes :
                        /\ nodes[j].properties.entity_type = e.type
                        /\ QualifyingNames(nodes[j], e) # {}}}
            /\ \A i, j \in DOMAIN c : c[i] = c[j] => i = j

\* a node with two qualifying names is listed once; a node whose only
\* name is at similarity exactly 0.5 is listed; a node of the query's type
\* whose names are all below 0.5, one of them at 0.4, is not
C22_Witness ==
    /\ \E i \in DOMAIN nodes, e \in CandidateQueries :
        /\ nodes[i].properties.entity_type = e.type
        /\ Cardinality(QualifyingNames(nodes[i], e)) = 2
        /\ Len(candidate_entities(World0, e)) = 1
    /\ \E i \in DOMAIN nodes, e \in CandidateQueries :
        /\ nodes[i].properties.entity_type = e.type
        /\ nodes[i].properties.alternative_names = <<>>
        /\ ratio(lower(e.name), lower(nodes[i].properties.primary_name))
                = [num |-> 2, den |-> 4]
        /\ \E k \in DOMAIN candidate_entities(World0, e) :
                candidate_entities(World0, e)[k] = nodes[i].id
    /\ \E i \in DOMAIN nodes, e \in CandidateQueries :
        /\ nodes[i].properties.entity_type = e.type
        /\ QualifyingNames(nodes[i], e) = {}
        /\ ratio(lower(e.name), lower(nodes[i].properties.primary_name))
                = [num |-> 2, den |-> 5]
        /\ \A k \in DOMAIN candidate_entities(World0, e) :
                candidate_entities(World0, e)[k] # nodes[i].id

\* the resolution create_node runs first, on the document as it is
FinalCheck == find_matching_entity(World0, call'.args[1], call'.args[2])

\* C23: create_node adds a node (one more node, an id no node had, the
\* entity's folded name registered under it, the other nodes and the edges
\* as they were) only when its final resolution reports no match; when the
\* resolution reports a match it returns the matched id and leaves the
\* nodes, the edges and the name index unchanged, as it does when the
\* resolution fails.
C23_FinalCheck ==
    [][call'.op = "create_node" =>
        IF FinalCheck.exc = NoExc /\ FinalCheck.val = None
        THEN /\ ret'.exc = NoExc
             /\ Len(nodes') = Len(nodes) + 1
             /\ ~HasNode(nodes, ret'.val)
             /\ HasNode(nodes', ret'.val)
             /\ SubSeq(nodes', 1, Len(nodes)) = nodes
             /\ edges' = edges
             /\ name_to_id_map'
                    = SetKey(name_to_id_map, lower(call'.args[1].name),
                             ret'.val)
        ELSE /\ nodes' = nodes
             /\ edges' = edges
             /\ name_to_id_map' = name_to_id_map
             /\ ret'.exc = FinalCheck.exc
             /\ FinalCheck.exc = NoExc => ret'.val = FinalCheck.val[1]]_vars

\* create_node was called for a spelling of a name a node of that type
\* already bears; it returned that node's id and created nothing
C23_Witness ==
    /\ call.op = "create_node"
    /\ ret.exc = NoExc
    /\ HasNode(nodes, ret.val)
    /\ NodeProps(nodes, ret.val).primary_name # call.args[1].name
    /\ NodeProps(nodes, ret.val).entity_type = call.args[1].type
    /\ NodeProps(nodes, ret.val).alternative_names = <<>>
    /\ Len(nodes) = 1

\* name occurs in the sequence names
InSeq(name, names) == \E i \in DOMAIN names : names[i] = name

\* no node's alternative_names repeats a name or holds its primary_name
AlternativeNamesWellFormed ==
    \A i \in DOMAIN nodes :
        LET alts == nodes[i].properties.alternative_names
        IN  /\ \A j, k \in DOMAIN alts : alts[j] = alts[k] => j = k
            /\ ~InSeq(nodes[i].properties.primary_name, alts)

\* update_node is called on a node of the document with a name that is
\* neither its primary_name nor one of its alternative_names
NewNameMerged ==
    /\ call'.op = "update_node"
    /\ HasNode(nodes, call'.args[1])
    /\ call'.args[2].name # NodeProps(nodes, call'.args[1]).primary_name
    /\ ~InSeq(call'.args[2].name,
              NodeProps(nodes, call'.args[1]).alternative_names)

\* C24: update_node appends an incoming name that differs from the node's
\* primary_name and is not yet an alternative name, and registers its
\* folded form under the node's id.  (That no alternative_names holds a
\* duplicate or the primary_name is AlternativeNamesWellFormed.)
C24_AlternativeNames ==
    [][NewNameMerged =>
        /\ NodeProps(nodes', call'.args[1]).alternative_names
            = Append(NodeProps(nodes, call'.args[1]).alternative_names,
                     call'.args[2].name)
        /\ lower(call'.args[2].name) \in DOMAIN name_to_id_map'
        /\ name_to_id_map'[lower(call'.args[2].name)] = call'.args[1]
      ]_vars

\* update_node is called again with the node and the entity of the call
\* before
MergedAgain ==
    /\ call.op = "update_node"
    /\ call'.op = "update_node"
    /\ call'.args = call.args

\* the name, the description and the external_ids of the entity update_node
\* is called with are already in the node
AlreadyContained ==
    /\ call'.op = "update_node"
    /\ HasNode(nodes, call'.args[1])
    /\ LET props == NodeProps(nodes, call'.args[1])
           e == call'.args[2]
       IN  /\ \/ e.name = props.primary_name
              \/ InSeq(e.name, props.alternative_names)
           /\ \/ ~TruthyStr(e.description)
              \/ e.description = props.description
           /\ \/ ~TruthyDict(e.external_ids)
              \/ /\ props.external_ids # None
                 /\ \A k \in DOMAIN e.external_ids[1] :
                        /\ k \in DOMAIN props.external_ids[1]
                        /\ props.external_ids[1][k] = e.external_ids[1][k]

\* a second merge of the same entity into the same node changes nothing
SecondMergeChangesNothing ==
    [][MergedAgain => /\ nodes' = nodes
                      /\ edges' = edges
                      /\ name_to_id_map' = name_to_id_map]_vars

\* C25: merging the same entity into the same node a second time leaves
\* the nodes and the name index as the first merge left them, and merging
\* an entity whose name, description and external_ids the node already
\* holds changes neither the nodes, nor the edges, nor the name index.
C25_MergeIdempotent ==
    [][(MergedAgain \/ AlreadyContained)
        => /\ nodes' = nodes
           /\ edges' = edges
           /\ name_to_id_map' = name_to_id_map]_vars

\* every node, every name of a node, every edge with its evidence and
\* every name of the index that the document holds is still there in the
\* next state
DocumentKept ==
    /\ \A i \in DOMAIN nodes :
        /\ i \in DOMAIN nodes'
        /\ nodes'[i].id = nodes[i].id
        /\ \A k \in DOMAIN known_names(nodes[i].properties) :
            InSeq(known_names(nodes[i].properties)[k],
                  known_names(nodes'[i].properties))
    /\ \A k \in DOMAIN edges :
        /\ k \in DOMAIN edges'
        /\ edges'[k] = edges[k]
    /\ \A n \in DOMAIN name_to_id_map : n \in DOMAIN name_to_id_map'

\* C26: when process_abstract leaves its loop over the relations with an
\* exception raised for relation idx, it raises it to its caller, the
\* relations after idx are not processed (the change records are those of
\* relations 1..idx-1), and the nodes, edges and names the document held
\* before the failing step are all kept; it leaves the loop without an
\* exception only with one change record per relation.
C26_AbortWithoutRollback ==
    [][(pc \in {"source", "target", "edge"} /\ pc' = "idle") =>
        IF ret'.exc = NoExc
        THEN Len(updates') = Len(relations)
        ELSE /\ call'.op = "process_abstract"
             /\ idx' = idx
             /\ updates' = updates
             /\ Len(updates) = idx - 1
             /\ DocumentKept]_vars

\* the second relation of an abstract failed at its target after the first
\* relation had made two nodes and an edge and the source of the second had
\* made a third node: all of it is in the document
C26_Witness ==
    /\ pc = "idle"
    /\ call.op = "process_abstract"
    /\ ret.exc # NoExc
    /\ idx = 2
    /\ Len(relations) = 2
    /\ Len(updates) = 1
    /\ Len(nodes) = 3
    /\ source_node_id = Some("node_2")
    /\ updates[1].edge_id \in DOMAIN edges
    /\ Len(edges[updates[1].edge_id].evidence) = 1

\* C27: in every reachable state the source_node and the target_node of
\* every edge are ids of nodes of the document, whatever the disambiguation
\* collaborator would answer.
C27_EdgesReferToNodes ==
    \A k \in DOMAIN edges :
        /\ HasNode(nodes, edges[k].source_node)
        /\ HasNode(nodes, edges[k].target_node)

\* an abstract of two relations has been processed: three nodes, two edges
C27_Witness ==
    /\ pc = "idle"
    /\ call.op = "process_abstract"
    /\ ret.exc = NoExc
    /\ Len(nodes) = 3
    /\ Cardinality(DOMAIN edges) = 2
    /\ \E k \in DOMAIN edges : edges[k].target_node = "node_2"

\* C28: in every state reached from the empty graph by processing
\* abstracts, no two distinct nodes have the same entity_type and the same
\* case-folded primary_name.
C28_NoDuplicateNodes ==
    \A i, j \in DOMAIN nodes :
        (/\ nodes[i].properties.entity_type = nodes[j].properties.entity_type
         /\ lower(nodes[i].properties.primary_name)
                = lower(nodes[j].properties.primary_name))
            => i = j

\* a GENE and a DISEASE bear the same folded name and the index points to
\* the DISEASE; an abstract whose first relation starts at a GENE of that
\* name was processed and made no second GENE: its resolution raised
C28_Witness ==
    /\ pc = "idle"
    /\ call.op = "process_abstract"
    /\ ret.exc # NoExc
    /\ idx = 1
    /\ source_node_id = None
    /\ relations[1].source_entity.type = "GENE"
    /\ \E i, j \in DOMAIN nodes :
        /\ nodes[i].properties.entity_type = "GENE"
        /\ nodes[j].properties.entity_type = "DISEASE"
        /\ lower(nodes[i].properties.primary_name)
                = lower(relations[1].source_entity.name)
        /\ lower(nodes[j].properties.primary_name)
                = lower(relations[1].source_entity.name)
        /\ name_to_id_map[lower(relations[1].source_entity.name)]
                = nodes[j].id

\* C29: when the answer to a repair call, the third included, is an
\* extraction whose entities and relations all pass the schema, the
\* extraction does not fail: that answer is converted and returned.
C29_ValidRepairAccepted ==
    [][(/\ pc = "fix"
        /\ extraction'.kind = "dict"
        /\ extraction'.entities_valid
        /\ extraction'.relations_valid)
       => /\ ret'.exc = NoExc
          /\ pc' \in {"normalize", "relations"}
          /\ entities' = extraction'.entities
          /\ relations' = extraction'.relations]_vars

\* the document of the next state is that of result res
DocumentIs(res) ==
    /\ nodes' = res.w.nodes
    /\ edges' = res.w.edges
    /\ name_to_id_map' = res.w.name_to_id_map

\* C30: what the normalization lookups return does not show in the graph:
\* a lookup leaves the nodes, the edges and the name index as they are and
\* the relations as the extraction delivered them, and every later step
\* makes of the document what the starting document, the extraction's
\* relation and the disambiguation answers alone determine.
C30_LookupsDoNotShow ==
    [][/\ pc = "normalize" =>
            /\ nodes' = nodes
            /\ edges' = edges
            /\ name_to_id_map' = name_to_id_map
            /\ relations' = extraction.relations
       /\ pc = "source" =>
            \E r1, r2 \in Responses :
                DocumentIs(resolve_entity(World0,
                    extraction.relations[idx].source_entity, r1, r2))
       /\ pc = "target" =>
            \E r1, r2 \in Responses :
                DocumentIs(resolve_entity(World0,
                    extraction.relations[idx].target_entity, r1, r2))
       /\ pc = "edge" =>
            DocumentIs(create_update_edge(World0, source_node_id[1],
                target_node_id[1],
                relation_info_of(abstract_info[1],
                                 extraction.relations[idx])))
      ]_vars

\* an abstract was processed whose lookups found an id for both entities;
\* the entities of the list carry it, the nodes made for them do not
C30_Witness ==
    /\ pc = "idle"
    /\ call.op = "process_abstract"
    /\ ret.exc = NoExc
    /\ Cardinality(DOMAIN edges) = 1
    /\ Len(entities) = 2
    /\ \A i \in DOMAIN entities :
        /\ TruthyDict(entities[i].external_ids)
        /\ "PubTatorID" \in DOMAIN entities[i].external_ids[1]
        /\ \E j \in DOMAIN nodes :
            /\ nodes[j].properties.primary_name = entities[i].name
            /\ nodes[j].properties.entity_type = entities[i].type
            /\ "PubTatorID" \notin DOMAIN IdsOf(nodes[j].properties.external_ids)

=============================================================================
